---------------------------- MODULE Spec2Model ----------------------------
(***************************************************************************)
(* Model of the vector containers of adv_linalg_lib (feature "full"):      *)
(* the four container variants Vector, MutVector, VectorSlice and          *)
(* MutVectorSlice over a heap of element buffers, their pairwise           *)
(* transforms, and the operator overloads +, - and * (dot product) that    *)
(* src/vectors/mod.rs declares for the sixteen pairings of variants.       *)
(*                                                                         *)
(* The pairings and their attributes, Vector::combine, the VectorType      *)
(* impls and the conversions are taken from the source.  The bodies the    *)
(* macros impl_vector_add!, impl_dot_product! and impl_vector_sub! expand  *)
(* to, and the private traits Combine and CombineMut, are not part of the  *)
(* source tree; they follow the design document (sections 4.4 to 4.6).     *)
(*                                                                         *)
(* The element type T is modelled by the integers with exact arithmetic.   *)
(* A container is a handle [kind, buf, start, n]: an owned variant owns    *)
(* the whole buffer mem[buf] (a Vec<T>), a slice variant is the fat        *)
(* pointer (start, n) into a buffer owned elsewhere.                       *)
(*                                                                         *)
(* Specifications: Spec (operators and combine on two operands),           *)
(* SpecReuse (repeated addition into one MutVector), SpecMap (unary and    *)
(* in-place transforms), SpecSlice (slicing and indexing), SpecBorrow      *)
(* (the views of one MutVector that are live together) and SpecConv (the   *)
(* conversions that move a buffer).  MutVector::as_slice_mut and           *)
(* MutVector::from appear in the documentation only and follow the design  *)
(* document.                                                               *)
(***************************************************************************)
EXTENDS Integers, Sequences, FiniteSets, TLC

VARIABLES
    mem,      \* the heap: a sequence of element buffers, mem[b] is buffer b
    lhs,      \* handle of the left operand
    rhs,      \* handle of the right operand
    out,      \* what the last operation returned
    pre,      \* the heap as it was when the last operation was called
    allocs,   \* containers allocated by the library's operations so far
    nops,     \* operations called so far
    reuse,    \* history of the in-place additions into the left operand
    calls,    \* the indices the last operation invoked its closure for, in order
    views,    \* the live views of the left operand's elements, by origin
    cheap_casts  \* whether the feature "cheap_casts" is on in this build

vars ==
    <<mem, lhs, rhs, out, pre, allocs, nops, reuse, calls, views, cheap_casts>>

(***************************************************************************)
(* Bounds of the model.                                                    *)
(***************************************************************************)
MaxLen == 2      \* longest operand
MaxOps == 2      \* operations per behaviour

\* The element values operands are built from.
Vals == {1, 2}

SeqsUpTo(n) == UNION {[1 .. k -> Vals] : k \in 0 .. n}

\* Elements stored around a slice's range in the storage it views.
Pad == <<7>>

(***************************************************************************)
(* The four container variants.                                            *)
(***************************************************************************)
Vector == "Vector"
MutVector == "MutVector"
VectorSlice == "VectorSlice"
MutVectorSlice == "MutVectorSlice"

Kinds == {Vector, MutVector, VectorSlice, MutVectorSlice}

\* The variants that hold `values: Vec<T>`.
Owned(k) == k \in {Vector, MutVector}

\* The variants whose name carries the prefix "Mut".
MutCapable(k) == k \in {MutVector, MutVectorSlice}

NoHandle == [kind |-> "none", buf |-> 0, start |-> 0, n |-> 0]

\* No view is live.  shared: VectorSlices borrowed from the owner;
\* exclusive: MutVectorSlices borrowed from the owner; derived: VectorSlices
\* borrowed from the live MutVectorSlice; spent: the MutVectorSlice has lent
\* itself out for the rest of its lifetime.
NoViews == [shared |-> 0, exclusive |-> 0, derived |-> 0, spent |-> 0]

(***************************************************************************)
(* VectorType: read iteration and length of each variant.                  *)
(***************************************************************************)
\* self.values.len()
VectorType_len(m, h) ==
    IF Owned(h.kind) THEN Len(m[h.buf]) ELSE h.n

\* A slice iterating its range from the last element back to the first
VectorType_iter_backwards(m, h) ==
    IF Owned(h.kind)
    THEN m[h.buf]
    ELSE [i \in 1 .. h.n |-> m[h.buf][h.start + h.n + 1 - i]]

\* self.values.iter(): the elements in index order
VectorType_iter(m, h) ==
    IF Owned(h.kind)
    THEN m[h.buf]
    ELSE SubSeq(m[h.buf], h.start + 1, h.start + h.n)

\* Index::index: &self.values[index], index 0-based and in range
Index_index(m, h, index) ==
    IF Owned(h.kind)
    THEN m[h.buf][index + 1]
    ELSE m[h.buf][h.start + index + 1]

\* The elements of a container as a caller reads them, position by position.
Elems(m, h) == [i \in 1 .. VectorType_len(m, h) |-> Index_index(m, h, i - 1)]

(***************************************************************************)
(* Element closures.  The operator overloads pass `l + r`, `l - r` and     *)
(* `l * r`; Closures are the ones passed to direct combine calls.          *)
(***************************************************************************)
Closures == {"sub", "mul"}

\* |a, b| f(b, a): the closure f taking its two arguments in the other order
Flip(f) ==
    CASE f = "add" -> "add_flipped"
      [] f = "sub" -> "sub_flipped"
      [] f = "mul" -> "mul_flipped"

Apply(f, l, r) ==
    CASE f = "add" -> l + r
      [] f = "sub" -> l - r
      [] f = "mul" -> l * r
      [] f = "add_flipped" -> r + l
      [] f = "sub_flipped" -> r - l
      [] f = "mul_flipped" -> r * l

\* The closures passed to combine_enumerate: they also take the shared index.
EnumClosures == {"sub_plus_index"}

ApplyAt(f, l, r, index) ==
    CASE f = "sub_plus_index" -> l - r + index

\* T::default() of the integer element types
T_default == 0

(***************************************************************************)
(* Results of a transform: Ok(values) or the panic of a size mismatch.     *)
(***************************************************************************)
Ok(values) == [status |-> "ok", values |-> values]
SizeMismatch == [status |-> "SizeMismatch", values |-> <<>>]

\* Iterator::zip: pairs up to the shorter of the two iterators
RECURSIVE zip(_, _)
zip(a, b) ==
    IF a = <<>> \/ b = <<>>
    THEN <<>>
    ELSE <<<<Head(a), Head(b)>>>> \o zip(Tail(a), Tail(b))

\* Vector::combine with the length check left out: zip truncates
Vector_combine_unchecked(m, self, other, f) ==
    LET iter == zip(VectorType_iter(m, self), VectorType_iter(m, other))
    IN  Ok([i \in 1 .. Len(iter) |-> Apply(f, iter[i][1], iter[i][2])])

\* Vector::combine calling f(rhs_value, lhs_value)
Vector_combine_swapped(m, self, other, f) ==
    IF VectorType_len(m, self) # VectorType_len(m, other)
    THEN SizeMismatch
    ELSE LET iter == zip(VectorType_iter(m, self), VectorType_iter(m, other))
         IN  Ok([i \in 1 .. Len(iter) |-> Apply(f, iter[i][2], iter[i][1])])

\* Vector::combine zipping self.values with self.values
Vector_combine_selfzip(m, self, other, f) ==
    IF VectorType_len(m, self) # VectorType_len(m, other)
    THEN SizeMismatch
    ELSE LET iter == zip(VectorType_iter(m, self), VectorType_iter(m, self))
         IN  Ok([i \in 1 .. Len(iter) |-> Apply(f, iter[i][1], iter[i][2])])

\* Vector::combine: panics on different sizes, else pushes f(lhs, rhs) for
\* every zipped pair into a new Vec and wraps it.
Vector_combine(m, self, other, f) ==
    IF VectorType_len(m, self) # VectorType_len(m, other)
    THEN SizeMismatch
    ELSE LET iter == zip(VectorType_iter(m, self), VectorType_iter(m, other))
         IN  Ok([i \in 1 .. Len(iter) |-> Apply(f, iter[i][1], iter[i][2])])

\* Vector::combine_enumerate counting the pairs from 1
Vector_combine_enumerate_from_one(m, self, other, f) ==
    IF VectorType_len(m, self) # VectorType_len(m, other)
    THEN SizeMismatch
    ELSE LET iter == zip(VectorType_iter(m, self), VectorType_iter(m, other))
         IN  Ok([i \in 1 .. Len(iter) |->
                    ApplyAt(f, iter[i][1], iter[i][2], i)])

\* Vector::combine_enumerate: the same with the 0-based index of each pair
Vector_combine_enumerate(m, self, other, f) ==
    IF VectorType_len(m, self) # VectorType_len(m, other)
    THEN SizeMismatch
    ELSE LET iter == zip(VectorType_iter(m, self), VectorType_iter(m, other))
         IN  Ok([i \in 1 .. Len(iter) |->
                    ApplyAt(f, iter[i][1], iter[i][2], i - 1)])

\* Combine::combine_enumerate of the private trait
Combine_combine_enumerate(m, self, other, f) ==
    IF VectorType_len(m, self) # VectorType_len(m, other)
    THEN SizeMismatch
    ELSE LET l == VectorType_iter(m, self)
             r == VectorType_iter(m, other)
         IN  Ok([i \in 1 .. Len(l) |-> ApplyAt(f, l[i], r[i], i - 1)])

\* Combine::combine of the private trait, for the pairings the inherent
\* Vector::combine does not cover.
Combine_combine(m, self, other, f) ==
    IF VectorType_len(m, self) # VectorType_len(m, other)
    THEN SizeMismatch
    ELSE LET l == VectorType_iter(m, self)
             r == VectorType_iter(m, other)
         IN  Ok([i \in 1 .. Len(l) |-> Apply(f, l[i], r[i])])

\* `self.combine(other, f)`: the inherent method of Vector when both are
\* Vectors, the trait method otherwise.
combine(m, self, other, f) ==
    IF self.kind = Vector /\ other.kind = Vector
    THEN Vector_combine(m, self, other, f)
    ELSE Combine_combine(m, self, other, f)

\* `self.combine_enumerate(other, f)`, resolved like combine
combine_enumerate(m, self, other, f) ==
    IF self.kind = Vector /\ other.kind = Vector
    THEN Vector_combine_enumerate(m, self, other, f)
    ELSE Combine_combine_enumerate(m, self, other, f)

\* Storing `values` through the exclusive iterator of a mutable-capable
\* container: an owned one holds exactly the values, a slice has its range
\* of the viewed buffer overwritten.
MutVectorType_store(m, h, values) ==
    IF Owned(h.kind)
    THEN [m EXCEPT ![h.buf] = values]
    ELSE [m EXCEPT ![h.buf] =
            SubSeq(m[h.buf], 1, h.start) \o values
            \o SubSeq(m[h.buf], h.start + h.n + 1, Len(m[h.buf]))]

\* CombineMut::combine_mut: checks the lengths before the first write, then
\* overwrites element i of self with f(self[i], other[i]), i ascending.
CombineMut_combine_mut(m, self, other, f) ==
    IF VectorType_len(m, self) # VectorType_len(m, other)
    THEN [status |-> "SizeMismatch", mem |-> m]
    ELSE LET l == VectorType_iter(m, self)
             r == VectorType_iter(m, other)
         IN  [status |-> "ok",
              mem |-> MutVectorType_store(m, self,
                          [i \in 1 .. Len(l) |-> Apply(f, l[i], r[i])])]

(***************************************************************************)
(* Map: the unary transforms.  A closure of MapClosures takes an element,  *)
(* one of IndexClosures a 0-based index, one of IndexValueClosures both.   *)
(***************************************************************************)
MapClosures == {"square", "inc"}

\* |x| g(f(x))
Compose(g, f) ==
    CASE g = "square" /\ f = "square" -> "square_of_square"
      [] g = "square" /\ f = "inc"    -> "square_of_inc"
      [] g = "inc" /\ f = "square"    -> "inc_of_square"
      [] g = "inc" /\ f = "inc"       -> "inc_of_inc"

RECURSIVE ApplyMap(_, _)
ApplyMap(f, x) ==
    CASE f = "square" -> x * x
      [] f = "inc"    -> x + 1
      [] f = "square_of_square" -> ApplyMap("square", ApplyMap("square", x))
      [] f = "square_of_inc"    -> ApplyMap("square", ApplyMap("inc", x))
      [] f = "inc_of_square"    -> ApplyMap("inc", ApplyMap("square", x))
      [] f = "inc_of_inc"       -> ApplyMap("inc", ApplyMap("inc", x))

IndexClosures == {"index_plus_3"}

ApplyIndex(f, index) ==
    CASE f = "index_plus_3" -> index + 3

IndexValueClosures == {"ten_index_plus_value"}

ApplyIndexValue(f, index, x) ==
    CASE f = "ten_index_plus_value" -> 10 * index + x

\* Iterator::enumerate: the 0-based position of each item
enumerate(iter) == [i \in 1 .. Len(iter) |-> <<i - 1, iter[i]>>]

\* Map::map: self.iter().map(|value| f(value)).collect()
Map_map(m, self, f) ==
    LET iter == VectorType_iter(m, self)
    IN  [i \in 1 .. Len(iter) |-> ApplyMap(f, iter[i])]

\* Map::map_index: self.iter().enumerate().map(|(index, _)| f(index))
Map_map_index(m, self, f) ==
    LET iter == enumerate(VectorType_iter(m, self))
    IN  [i \in 1 .. Len(iter) |-> ApplyIndex(f, iter[i][1])]

\* Map::map_enumerate: ...map(|(index, value)| f(index, value))
Map_map_enumerate(m, self, f) ==
    LET iter == enumerate(VectorType_iter(m, self))
    IN  [i \in 1 .. Len(iter) |-> ApplyIndexValue(f, iter[i][1], iter[i][2])]

\* Vector::map calling f with the position instead of the value
Vector_map_of_index(m, self, f) ==
    LET iter == enumerate(m[self.buf])
    IN  [i \in 1 .. Len(iter) |-> ApplyMap(f, iter[i][1])]

\* Vector::map: self.values.iter().map(|value| f(value)).collect()
Vector_map(m, self, f) ==
    LET iter == m[self.buf]
    IN  [i \in 1 .. Len(iter) |-> ApplyMap(f, iter[i])]

\* Vector::map_index
Vector_map_index(m, self, f) ==
    LET iter == enumerate(m[self.buf])
    IN  [i \in 1 .. Len(iter) |-> ApplyIndex(f, iter[i][1])]

\* Vector::map_enumerate
Vector_map_enumerate(m, self, f) ==
    LET iter == enumerate(m[self.buf])
    IN  [i \in 1 .. Len(iter) |-> ApplyIndexValue(f, iter[i][1], iter[i][2])]

\* The elements a VectorSlice refers to: self.values
VectorSlice_values(m, self) ==
    SubSeq(m[self.buf], self.start + 1, self.start + self.n)

\* VectorSlice::lambda
VectorSlice_lambda(m, self, f) ==
    LET iter == VectorSlice_values(m, self)
    IN  [i \in 1 .. Len(iter) |-> ApplyMap(f, iter[i])]

\* VectorSlice::lambda_index counting positions from 1
VectorSlice_lambda_index_from_one(m, self, f) ==
    LET iter == enumerate(VectorSlice_values(m, self))
    IN  [i \in 1 .. Len(iter) |-> ApplyIndex(f, iter[i][1] + 1)]

\* VectorSlice::lambda_index
VectorSlice_lambda_index(m, self, f) ==
    LET iter == enumerate(VectorSlice_values(m, self))
    IN  [i \in 1 .. Len(iter) |-> ApplyIndex(f, iter[i][1])]

\* VectorSlice::lambda_enumerate
VectorSlice_lambda_enumerate(m, self, f) ==
    LET iter == enumerate(VectorSlice_values(m, self))
    IN  [i \in 1 .. Len(iter) |-> ApplyIndexValue(f, iter[i][1], iter[i][2])]

\* `self.map(f)`: the inherent method of Vector, the lambda of a VectorSlice,
\* the Map trait behind the methods of MutVector and MutVectorSlice.
map(m, self, f) ==
    CASE self.kind = Vector      -> Vector_map(m, self, f)
      [] self.kind = VectorSlice -> VectorSlice_lambda(m, self, f)
      [] OTHER                   -> Map_map(m, self, f)

map_index(m, self, f) ==
    CASE self.kind = Vector      -> Vector_map_index(m, self, f)
      [] self.kind = VectorSlice -> VectorSlice_lambda_index(m, self, f)
      [] OTHER                   -> Map_map_index(m, self, f)

map_enumerate(m, self, f) ==
    CASE self.kind = Vector      -> Vector_map_enumerate(m, self, f)
      [] self.kind = VectorSlice -> VectorSlice_lambda_enumerate(m, self, f)
      [] OTHER                   -> Map_map_enumerate(m, self, f)

(***************************************************************************)
(* MapMut: the unary transforms of the mutable-capable variants, as the    *)
(* default methods of the trait are written.  Each yields the heap after   *)
(* the call and the indices its closure was invoked for.                   *)
(***************************************************************************)
\* MapMut::map_mut: `for item in self.iter_mut() { }`, then self.  The loop
\* has no body: f is not invoked and no element is written.
MapMut_map_mut(m, self, f) ==
    [mem |-> m, calls |-> <<>>]

\* MapMut::map_index_mut: f is invoked for every index; what the closure
\* of the callers (Fn(usize) -> T) returns is not stored anywhere.
MapMut_map_index_mut(m, self, f) ==
    LET iter == enumerate(VectorType_iter(m, self))
    IN  [mem |-> m, calls |-> [i \in 1 .. Len(iter) |-> iter[i][1]]]

\* MapMut::map_enumerate_mut growing an owned container by the new values
MapMut_map_enumerate_mut_pushing(m, self, f) ==
    LET iter == enumerate(VectorType_iter(m, self))
        new == [i \in 1 .. Len(iter) |->
                    ApplyIndexValue(f, iter[i][1], iter[i][2])]
    IN  [mem |-> IF Owned(self.kind)
                 THEN [m EXCEPT ![self.buf] = @ \o new]
                 ELSE MutVectorType_store(m, self, new),
         calls |-> [i \in 1 .. Len(iter) |-> iter[i][1]]]

\* MapMut::map_enumerate_mut: for_each(|(index, value)| f(index, value)),
\* f writing through its exclusive reference to the element.
MapMut_map_enumerate_mut(m, self, f) ==
    LET iter == enumerate(VectorType_iter(m, self))
    IN  [mem |-> MutVectorType_store(m, self,
                    [i \in 1 .. Len(iter) |->
                        ApplyIndexValue(f, iter[i][1], iter[i][2])]),
         calls |-> [i \in 1 .. Len(iter) |-> iter[i][1]]]

\* CombineMut::combine_enumerate_mut: combine_mut with the shared index
CombineMut_combine_enumerate_mut(m, self, other, f) ==
    IF VectorType_len(m, self) # VectorType_len(m, other)
    THEN [status |-> "SizeMismatch", mem |-> m]
    ELSE LET l == VectorType_iter(m, self)
             r == VectorType_iter(m, other)
         IN  [status |-> "ok",
              mem |-> MutVectorType_store(m, self,
                          [i \in 1 .. Len(l) |-> ApplyAt(f, l[i], r[i], i - 1)])]

(***************************************************************************)
(* The dispatch tables: the pairings [Lhs] op [Rhs] listed in the           *)
(* invocations of impl_vector_add!, impl_dot_product! and impl_vector_sub!, *)
(* by the attribute each pairing carries.                                   *)
(***************************************************************************)
AddMutLeft ==
    { <<MutVector, Vector>>, <<MutVectorSlice, Vector>>,
      <<MutVector, VectorSlice>>, <<MutVectorSlice, VectorSlice>> }
AddMutRight ==
    { <<Vector, MutVector>>, <<VectorSlice, MutVector>>,
      <<Vector, MutVectorSlice>>, <<VectorSlice, MutVectorSlice>> }
AddMutBoth ==
    { <<MutVector, MutVector>>, <<MutVectorSlice, MutVector>>,
      <<MutVector, MutVectorSlice>>, <<MutVectorSlice, MutVectorSlice>> }
AddPlain ==
    { <<Vector, Vector>>, <<VectorSlice, Vector>>,
      <<Vector, VectorSlice>>, <<VectorSlice, VectorSlice>> }

DotMutLeft ==
    { <<MutVector, Vector>>, <<MutVectorSlice, Vector>>,
      <<MutVector, VectorSlice>>, <<MutVectorSlice, VectorSlice>> }
DotMutRight ==
    { <<Vector, MutVector>>, <<VectorSlice, MutVector>>,
      <<Vector, MutVectorSlice>>, <<VectorSlice, MutVectorSlice>> }
DotMutBoth ==
    { <<MutVector, MutVector>>, <<MutVectorSlice, MutVector>>,
      <<MutVector, MutVectorSlice>>, <<MutVectorSlice, MutVectorSlice>> }
DotPlain ==
    { <<Vector, Vector>>, <<VectorSlice, Vector>>,
      <<Vector, VectorSlice>>, <<VectorSlice, VectorSlice>> }

SubMutLeft ==
    { <<MutVector, Vector>>, <<MutVectorSlice, Vector>>,
      <<MutVector, VectorSlice>>, <<MutVectorSlice, VectorSlice>> }
SubMutRight ==
    { <<Vector, MutVector>>, <<VectorSlice, MutVector>>,
      <<Vector, MutVectorSlice>>, <<VectorSlice, MutVectorSlice>> }
SubMutBoth ==
    { <<MutVector, MutVector>>, <<MutVectorSlice, MutVector>>,
      <<MutVector, MutVectorSlice>>, <<MutVectorSlice, MutVectorSlice>> }
SubPlain ==
    { <<Vector, Vector>>, <<VectorSlice, Vector>>,
      <<Vector, VectorSlice>>, <<VectorSlice, VectorSlice>> }

Tag(pair, plain, mutLeft, mutRight, mutBoth) ==
    CASE pair \in mutLeft  -> "mut_left"
      [] pair \in mutRight -> "mut_right"
      [] pair \in mutBoth  -> "mut_both"
      [] pair \in plain    -> "plain"

\* Add with the both-mutable pairings carrying #[mut_right]
AddTag_rightPreferred(l, r) ==
    Tag(<<l, r>>, AddPlain, AddMutLeft, AddMutRight \cup AddMutBoth, {})

\* Add with the #[mut_left] pairings carrying no attribute
AddTag_leftUntagged(l, r) ==
    Tag(<<l, r>>, AddPlain \cup AddMutLeft, {}, AddMutRight, AddMutBoth)

\* Sub with the #[mut_right] pairings carrying no attribute
SubTag_rightUntagged(l, r) ==
    Tag(<<l, r>>, SubPlain \cup SubMutRight, SubMutLeft, {}, SubMutBoth)

\* Sub with the both-mutable pairings carrying #[mut_right]
SubTag_rightPreferred(l, r) ==
    Tag(<<l, r>>, SubPlain, SubMutLeft, SubMutRight \cup SubMutBoth, {})

\* The attribute of the Add impl selected for `l + r`
AddTag(l, r) == Tag(<<l, r>>, AddPlain, AddMutLeft, AddMutRight, AddMutBoth)
\* The attribute of the Mul impl selected for `l * r`
DotTag(l, r) == Tag(<<l, r>>, DotPlain, DotMutLeft, DotMutRight, DotMutBoth)
\* The attribute of the Sub impl selected for `l - r`
SubTag(l, r) == Tag(<<l, r>>, SubPlain, SubMutLeft, SubMutRight, SubMutBoth)

(***************************************************************************)
(* What an operation returns.  where: "fresh" a container the operation    *)
(* allocated, "lhs"/"rhs" a handle to that operand, "scalar" a value of T, *)
(* "none" after a panic.                                                   *)
(***************************************************************************)
Returned(op, tag, status, where, h, scalar) ==
    [op |-> op, tag |-> tag, status |-> status, where |-> where,
     h |-> h, scalar |-> scalar]

NoOut == Returned("none", "none", "ok", "none", NoHandle, 0)

Panicked(op, tag, m) ==
    [mem |-> m, allocd |-> 0,
     out |-> Returned(op, tag, "SizeMismatch", "none", NoHandle, 0)]

\* Vector::from(Vec<T>): the new container takes over the new buffer
Vector_from(op, tag, m, values) ==
    [mem |-> Append(m, values), allocd |-> 1,
     out |-> Returned(op, tag, "ok", "fresh",
                      [kind |-> Vector, buf |-> Len(m) + 1, start |-> 0, n |-> 0],
                      0)]

\* The body the vector macros generate for one pairing, by its attribute:
\* no attribute: self.combine(other, f) into a new Vector;
\* mut_left and mut_both: lhs.combine_mut(rhs, f), returning lhs;
\* mut_right: rhs.combine_mut(lhs, f with its arguments swapped), returning rhs.
impl_vector_op(op, tag, f, m, l, r) ==
    CASE tag = "plain" ->
            LET c == combine(m, l, r, f)
            IN  IF c.status = "ok"
                THEN Vector_from(op, tag, m, c.values)
                ELSE Panicked(op, tag, m)
      [] tag \in {"mut_left", "mut_both"} ->
            LET c == CombineMut_combine_mut(m, l, r, f)
            IN  IF c.status = "ok"
                THEN [mem |-> c.mem, allocd |-> 0,
                      out |-> Returned(op, tag, "ok", "lhs", l, 0)]
                ELSE Panicked(op, tag, m)
      [] tag = "mut_right" ->
            LET c == CombineMut_combine_mut(m, r, l, Flip(f))
            IN  IF c.status = "ok"
                THEN [mem |-> c.mem, allocd |-> 0,
                      out |-> Returned(op, tag, "ok", "rhs", r, 0)]
                ELSE Panicked(op, tag, m)

\* impl Add: lhs[i] + rhs[i]
impl_vector_add(m, l, r) ==
    impl_vector_op("add", AddTag(l.kind, r.kind), "add", m, l, r)

\* impl Sub: lhs[i] - rhs[i]
impl_vector_sub(m, l, r) ==
    impl_vector_op("sub", SubTag(l.kind, r.kind), "sub", m, l, r)

\* sum = T::default(); for i ascending: sum = sum + lhs[i] * rhs[i]
RECURSIVE fold(_, _)
fold(sum, pairs) ==
    IF pairs = <<>>
    THEN sum
    ELSE fold(sum + Apply("mul", Head(pairs)[1], Head(pairs)[2]), Tail(pairs))

\* A dot product that keeps its running sum in the mutable left operand
impl_dot_product_accumulating(m, l, r) ==
    LET tag == DotTag(l.kind, r.kind)
        s == fold(T_default, zip(VectorType_iter(m, l), VectorType_iter(m, r)))
    IN  IF VectorType_len(m, l) # VectorType_len(m, r)
        THEN Panicked("dot", tag, m)
        ELSE [mem |-> IF tag \in {"mut_left", "mut_both"}
                      THEN MutVectorType_store(m, l,
                              [i \in 1 .. VectorType_len(m, l) |-> s])
                      ELSE m,
              allocd |-> 0,
              out |-> Returned("dot", tag, "ok", "scalar", NoHandle, s)]

\* A dot product multiplying lhs[i] by lhs[i]
impl_dot_product_lhs_squared(m, l, r) ==
    LET tag == DotTag(l.kind, r.kind)
    IN  IF VectorType_len(m, l) # VectorType_len(m, r)
        THEN Panicked("dot", tag, m)
        ELSE [mem |-> m, allocd |-> 0,
              out |-> Returned("dot", tag, "ok", "scalar", NoHandle,
                        fold(T_default,
                             zip(VectorType_iter(m, l), VectorType_iter(m, l))))]

\* impl Mul: the dot product, a scalar for every pairing and attribute
impl_dot_product(m, l, r) ==
    LET tag == DotTag(l.kind, r.kind)
    IN  IF VectorType_len(m, l) # VectorType_len(m, r)
        THEN Panicked("dot", tag, m)
        ELSE [mem |-> m, allocd |-> 0,
              out |-> Returned("dot", tag, "ok", "scalar", NoHandle,
                        fold(T_default,
                             zip(VectorType_iter(m, l), VectorType_iter(m, r))))]

(***************************************************************************)
(* The state machine: a caller holding two containers and calling the      *)
(* library's operations on them.                                           *)
(***************************************************************************)
\* The storage behind a container of kind k holding `values`: the Vec of an
\* owned variant, or a longer buffer a slice variant views the middle of.
Storage(k, values) ==
    IF Owned(k) THEN values ELSE Pad \o values \o Pad

Handle(k, b, values) ==
    IF Owned(k)
    THEN [kind |-> k, buf |-> b, start |-> 0, n |-> 0]
    ELSE [kind |-> k, buf |-> b, start |-> Len(Pad), n |-> Len(values)]

Seed(values, count) == [seed |-> values, addends |-> <<>>, allocs |-> count]

Bind(lk, lv, rk, rv) ==
    /\ mem = <<Storage(lk, lv), Storage(rk, rv)>>
    /\ lhs = Handle(lk, 1, lv)
    /\ rhs = Handle(rk, 2, rv)
    /\ out = NoOut
    /\ pre = mem
    /\ allocs = 0
    /\ nops = 0
    /\ reuse = Seed(lv, 0)
    /\ calls = <<>>
    /\ views = NoViews
    /\ cheap_casts = FALSE

Init ==
    \E lk \in Kinds, rk \in Kinds :
        \E lv \in SeqsUpTo(MaxLen), rv \in SeqsUpTo(MaxLen) :
            Bind(lk, lv, rk, rv)

\* A panic ends the caller; the result of the previous call, when it was a
\* new container, has been dropped before the next call.
Live == out.status = "ok" /\ nops < MaxOps
Base == SubSeq(mem, 1, 2)

\* The history of the buffer reuse: an addition to a mutable-capable left
\* operand extends it, any other operation starts it anew.
Reused(r) ==
    IF r.out.op = "add" /\ r.out.status = "ok" /\ MutCapable(lhs.kind)
    THEN [reuse EXCEPT !.addends = Append(@, VectorType_iter(Base, rhs))]
    ELSE Seed(VectorType_iter(r.mem, lhs), allocs + r.allocd)

Return(r) ==
    /\ mem' = r.mem
    /\ out' = r.out
    /\ pre' = Base
    /\ allocs' = allocs + r.allocd
    /\ nops' = nops + 1
    /\ reuse' = Reused(r)
    /\ calls' = IF "calls" \in DOMAIN r THEN r.calls ELSE <<>>
    /\ UNCHANGED <<lhs, rhs, views, cheap_casts>>

\* lhs + rhs
Add == Live /\ Return(impl_vector_add(Base, lhs, rhs))

\* lhs - rhs
Sub == Live /\ Return(impl_vector_sub(Base, lhs, rhs))

\* lhs * rhs
Mul == Live /\ Return(impl_dot_product(Base, lhs, rhs))

\* lhs.combine(&rhs, f)
Combine ==
    /\ Live
    /\ \E f \in Closures :
        LET c == combine(Base, lhs, rhs, f)
        IN  Return(IF c.status = "ok"
                   THEN Vector_from("combine", f, Base, c.values)
                   ELSE Panicked("combine", f, Base))

\* lhs.combine_enumerate(&rhs, f)
CombineEnumerate ==
    /\ Live
    /\ \E f \in EnumClosures :
        LET c == combine_enumerate(Base, lhs, rhs, f)
        IN  Return(IF c.status = "ok"
                   THEN Vector_from("combine_enumerate", f, Base, c.values)
                   ELSE Panicked("combine_enumerate", f, Base))

\* lhs.combine_mut(&rhs, f), on the variants that have it
CombineMut ==
    /\ Live
    /\ MutCapable(lhs.kind)
    /\ \E f \in Closures :
        LET c == CombineMut_combine_mut(Base, lhs, rhs, f)
        IN  Return(IF c.status = "ok"
                   THEN [mem |-> c.mem, allocd |-> 0,
                         out |-> Returned("combine_mut", f, "ok", "lhs", lhs, 0)]
                   ELSE Panicked("combine_mut", f, Base))

Next == Add \/ Sub \/ Mul \/ Combine \/ CombineEnumerate \/ CombineMut

Spec == Init /\ [][Next]_vars

(***************************************************************************)
(* Buffer reuse: the caller of the MutVector documentation, one MutVector  *)
(* buffer that immutable vectors of its length are added to, one after the *)
(* other: `&mut buffer + vector3 + vector4`.                               *)
(***************************************************************************)
Immutables == {Vector, VectorSlice}

SeqsOfLen(n) == [1 .. n -> Vals]

InitReuse ==
    \E lv \in SeqsUpTo(MaxLen), rk \in Immutables :
        \E rv \in SeqsOfLen(Len(lv)) :
            Bind(MutVector, lv, rk, rv)

\* The caller binds the next addend in place of the last one.
NewRhs ==
    /\ Live
    /\ out.op # "none"
    /\ \E rk \in Immutables :
        \E rv \in SeqsOfLen(VectorType_len(mem, lhs)) :
            /\ mem' = <<mem[1], Storage(rk, rv)>>
            /\ rhs' = Handle(rk, 2, rv)
    /\ out' = NoOut
    /\ pre' = mem'
    /\ calls' = <<>>
    /\ UNCHANGED <<lhs, allocs, nops, reuse, views, cheap_casts>>

NextReuse == Add \/ NewRhs

SpecReuse == InitReuse /\ [][NextReuse]_vars

(***************************************************************************)
(* The unary transforms and the in-place transforms: a caller holding a    *)
(* container of any variant and a `vector![x; n]` of its length.           *)
(***************************************************************************)
\* vec![x; n]
Repeat(x, n) == [i \in 1 .. n |-> x]

InitMap ==
    \E lk \in Kinds, lv \in SeqsUpTo(MaxLen), x \in Vals :
        Bind(lk, lv, Vector, Repeat(x, Len(lv)))

\* What a transform into a new Vector returns
Mapped(op, f, values) == Vector_from(op, f, Base, values)

\* What an in-place transform returns: the heap it left, a handle to lhs
InPlace(op, f, c) ==
    [mem |-> c.mem, allocd |-> 0, calls |-> c.calls,
     out |-> Returned(op, f, "ok", "lhs", lhs, 0)]

\* lhs.map(f)
Map ==
    /\ Live
    /\ \E f \in MapClosures : Return(Mapped("map", f, map(Base, lhs, f)))

\* lhs.map_index(f)
MapIndex ==
    /\ Live
    /\ \E f \in IndexClosures :
        Return(Mapped("map_index", f, map_index(Base, lhs, f)))

\* lhs.map_enumerate(f)
MapEnumerate ==
    /\ Live
    /\ \E f \in IndexValueClosures :
        Return(Mapped("map_enumerate", f, map_enumerate(Base, lhs, f)))

\* lhs.map_mut(f)
MapMut ==
    /\ Live
    /\ MutCapable(lhs.kind)
    /\ \E f \in MapClosures :
        Return(InPlace("map_mut", f, MapMut_map_mut(Base, lhs, f)))

\* lhs.map_index_mut(f)
MapIndexMut ==
    /\ Live
    /\ MutCapable(lhs.kind)
    /\ \E f \in IndexClosures :
        Return(InPlace("map_index_mut", f, MapMut_map_index_mut(Base, lhs, f)))

\* lhs.map_enumerate_mut(f)
MapEnumerateMut ==
    /\ Live
    /\ MutCapable(lhs.kind)
    /\ \E f \in IndexValueClosures :
        Return(InPlace("map_enumerate_mut", f,
                       MapMut_map_enumerate_mut(Base, lhs, f)))

\* lhs.combine_enumerate_mut(&rhs, f)
CombineEnumerateMut ==
    /\ Live
    /\ MutCapable(lhs.kind)
    /\ \E f \in EnumClosures :
        LET c == CombineMut_combine_enumerate_mut(Base, lhs, rhs, f)
        IN  Return(IF c.status = "ok"
                   THEN [mem |-> c.mem, allocd |-> 0,
                         out |-> Returned("combine_enumerate_mut", f, "ok",
                                          "lhs", lhs, 0)]
                   ELSE Panicked("combine_enumerate_mut", f, Base))

NextMap ==
    \/ Map \/ MapIndex \/ MapEnumerate
    \/ MapMut \/ MapIndexMut \/ MapEnumerateMut
    \/ CombineMut \/ CombineEnumerateMut

SpecMap == InitMap /\ [][NextMap]_vars

(***************************************************************************)
(* Slicing and indexing.  A region is a run of one buffer: the buffer, the *)
(* number of elements before the run, and the run's length.  Views are     *)
(* built from regions and copy nothing.                                    *)
(***************************************************************************)
\* core::ops::Range<usize>, start..end
Range(start, end) == [start |-> start, end |-> end]

\* a length of start..end that is the distance between its two ends
Range_len_distance(range) ==
    IF range.start < range.end
    THEN range.end - range.start
    ELSE range.start - range.end

\* range.len(): the number of positions in start..end, 0 when start >= end
Range_len(range) ==
    IF range.start < range.end THEN range.end - range.start ELSE 0

IndexOutOfRange == [status |-> "IndexOutOfRange"]

\* self.values of any variant as a region (Vec::as_slice for the owned ones)
values(m, self) ==
    [buf |-> self.buf, start |-> self.start, n |-> VectorType_len(m, self)]

\* split_at that stops at the end of the slice instead of panicking
split_at_clamped(s, mid) ==
    LET at == IF mid > s.n THEN s.n ELSE mid
    IN  [status |-> "ok",
         head |-> [buf |-> s.buf, start |-> s.start, n |-> at],
         tail |-> [buf |-> s.buf, start |-> s.start + at, n |-> s.n - at]]

\* <[T]>::split_at(mid): (s[..mid], s[mid..]); panics when mid > s.len()
split_at(s, mid) ==
    IF mid > s.n
    THEN IndexOutOfRange
    ELSE [status |-> "ok",
          head |-> [buf |-> s.buf, start |-> s.start, n |-> mid],
          tail |-> [buf |-> s.buf, start |-> s.start + mid, n |-> s.n - mid]]

\* VectorSlice { values: region }
VectorSlice_over(region) ==
    [status |-> "ok",
     h |-> [kind |-> VectorSlice, buf |-> region.buf,
            start |-> region.start, n |-> region.n]]

\* Vector::to_slice taking range.end for the length of the view
Vector_to_slice_end_as_len(m, self, range) ==
    LET after == split_at(values(m, self), range.start)
    IN  IF after.status # "ok" THEN IndexOutOfRange
        ELSE LET upto == split_at(after.tail, range.end)
             IN  IF upto.status # "ok" THEN IndexOutOfRange
                 ELSE VectorSlice_over(upto.head)

\* Vector::to_slice:
\* values.as_slice().split_at(range.start).1.split_at(range.len()).0
Vector_to_slice(m, self, range) ==
    LET after == split_at(values(m, self), range.start)
    IN  IF after.status # "ok" THEN IndexOutOfRange
        ELSE LET upto == split_at(after.tail, Range_len(range))
             IN  IF upto.status # "ok" THEN IndexOutOfRange
                 ELSE VectorSlice_over(upto.head)

\* MutVector::as_slice
MutVector_as_slice(m, self, range) ==
    LET after == split_at(values(m, self), range.start)
    IN  IF after.status # "ok" THEN IndexOutOfRange
        ELSE LET upto == split_at(after.tail, Range_len(range))
             IN  IF upto.status # "ok" THEN IndexOutOfRange
                 ELSE VectorSlice_over(upto.head)

\* VectorSlice::as_slice
VectorSlice_as_slice(m, self, range) ==
    LET after == split_at(values(m, self), range.start)
    IN  IF after.status # "ok" THEN IndexOutOfRange
        ELSE LET upto == split_at(after.tail, Range_len(range))
             IN  IF upto.status # "ok" THEN IndexOutOfRange
                 ELSE VectorSlice_over(upto.head)

\* MutVectorSlice::as_slice
MutVectorSlice_as_slice(m, self, range) ==
    LET after == split_at(values(m, self), range.start)
    IN  IF after.status # "ok" THEN IndexOutOfRange
        ELSE LET upto == split_at(after.tail, Range_len(range))
             IN  IF upto.status # "ok" THEN IndexOutOfRange
                 ELSE VectorSlice_over(upto.head)

\* The slicing method of each variant
slice(m, self, range) ==
    CASE self.kind = Vector -> Vector_to_slice(m, self, range)
      [] self.kind = MutVector -> MutVector_as_slice(m, self, range)
      [] self.kind = VectorSlice -> VectorSlice_as_slice(m, self, range)
      [] self.kind = MutVectorSlice -> MutVectorSlice_as_slice(m, self, range)

SliceOp(k) == IF k = Vector THEN "to_slice" ELSE "as_slice"

\* VectorSlice::from(raw): a view of the whole of the caller's slice, which
\* is buffer b of the heap
VectorSlice_from(m, b) ==
    VectorSlice_over([buf |-> b, start |-> 0, n |-> Len(m[b])])

\* Index::index of every variant: &self.values[index], which panics when
\* index >= self.values.len()
index(m, self, at) ==
    IF at >= VectorType_len(m, self)
    THEN IndexOutOfRange
    ELSE [status |-> "ok", value |-> Index_index(m, self, at)]

(***************************************************************************)
(* Views: one container of any variant, sliced, indexed, and compared with *)
(* a view built from a raw slice of the same elements.                     *)
(***************************************************************************)
\* The container of the slicing scenario
Scenario == <<1, 2, 3, 4>>

InitSlice ==
    \E lk \in Kinds, lv \in SeqsUpTo(MaxLen) \cup {Scenario} :
        Bind(lk, lv, Vector, <<>>)

\* The ranges and positions tried: everything up to one past the end
Positions1(n) == 0 .. n + 1

\* What a call that reads only returns: the heap as it was, no allocation
Viewed(op, arg, r) ==
    [mem |-> Base, allocd |-> 0,
     out |-> IF r.status = "ok"
             THEN Returned(op, arg, "ok", "view", r.h, 0)
             ELSE Returned(op, arg, r.status, "none", NoHandle, 0)]

\* lhs.to_slice(range), lhs.as_slice(range)
Slice ==
    /\ Live
    /\ \E start \in Positions1(VectorType_len(Base, lhs)) :
       \E end \in Positions1(VectorType_len(Base, lhs)) :
            Return(Viewed(SliceOp(lhs.kind), Range(start, end),
                          slice(Base, lhs, Range(start, end))))

\* lhs[i]
IndexAt ==
    /\ Live
    /\ \E i \in Positions1(VectorType_len(Base, lhs)) :
        LET r == index(Base, lhs, i)
        IN  Return([mem |-> Base, allocd |-> 0,
                    out |-> IF r.status = "ok"
                            THEN Returned("index", i, "ok", "scalar",
                                          NoHandle, r.value)
                            ELSE Returned("index", i, r.status, "none",
                                          NoHandle, 0)])

\* VectorSlice::from(raw.as_slice()), raw an array of the caller that holds
\* the elements lhs holds
FromRaw ==
    /\ Live
    /\ LET m == Append(Base, VectorType_iter(Base, lhs))
       IN  Return([mem |-> m, allocd |-> 0,
                   out |-> Returned("from", "raw", "ok", "view",
                                    VectorSlice_from(m, Len(m)).h, 0)])

NextSlice == Slice \/ IndexAt \/ FromRaw

SpecSlice == InitSlice /\ [][NextSlice]_vars

(***************************************************************************)
(* Borrows: the views of one MutVector's elements that are live together.  *)
(* A view is created by a method that borrows its receiver, shared for     *)
(* &self and exclusive for &mut self, for as long as the view lives; a     *)
(* call whose borrow conflicts with a live one is rejected at compile      *)
(* time, which is the outcome "BorrowConflict" here.                       *)
(***************************************************************************)
MaxViews == 2

Count(v) == v.shared + v.exclusive + v.derived

Granted(v) == [status |-> "ok", views |-> v]
BorrowConflict(v) == [status |-> "BorrowConflict", views |-> v]

\* MutVector::as_slice(&self): a shared borrow of the owner
Shared_borrow(v) ==
    IF v.exclusive > 0
    THEN BorrowConflict(v)
    ELSE Granted([v EXCEPT !.shared = @ + 1])

\* MutVector::as_slice_mut(&mut self): an exclusive borrow of the owner
Exclusive_borrow(v) ==
    IF Count(v) > 0
    THEN BorrowConflict(v)
    ELSE Granted([v EXCEPT !.exclusive = @ + 1])

\* MutVectorSlice::as_slice(&self): a shared borrow of the exclusive view,
\* which lives on underneath it
Shared_reborrow(v) == Granted([v EXCEPT !.derived = @ + 1])

\* MutVectorSlice<'v, T>::map_enumerate_mut(&'v mut self, ..): an exclusive
\* borrow of the view for all of its lifetime 'v
Exclusive_use(v) ==
    IF v.derived > 0 \/ v.spent > 0
    THEN BorrowConflict(v)
    ELSE Granted([v EXCEPT !.spent = 1])

\* MutVector::as_slice_mut(range): the MutVectorSlice over the range
MutVector_as_slice_mut(m, self, range) ==
    LET after == split_at(values(m, self), range.start)
    IN  IF after.status # "ok" THEN IndexOutOfRange
        ELSE LET upto == split_at(after.tail, Range_len(range))
             IN  IF upto.status # "ok" THEN IndexOutOfRange
                 ELSE [status |-> "ok",
                       h |-> [kind |-> MutVectorSlice, buf |-> upto.head.buf,
                              start |-> upto.head.start, n |-> upto.head.n]]

\* The view variants with Clone among their derives, and with
\* MutVectorSlice among them
Cloneable_with_mut == {VectorSlice, MutVectorSlice}

Cloneable == {VectorSlice}

\* The views after one more copy of a live view of kind k from origin o
Clone_clone(v, k, o) ==
    IF k = MutVectorSlice THEN [v EXCEPT !.exclusive = @ + 1]
    ELSE IF o = "owner" THEN [v EXCEPT !.shared = @ + 1]
    ELSE [v EXCEPT !.derived = @ + 1]

InitBorrow ==
    \E lv \in SeqsUpTo(MaxLen) : Bind(MutVector, lv, Vector, <<>>)

\* 0 .. len of the owner; the exclusive view over it
Full == Range(0, VectorType_len(mem, lhs))
ExclusiveView == MutVector_as_slice_mut(mem, lhs, Full).h

\* A call that creates a view, or is rejected: only `views` and `out` change
Borrowed(op, b, made) ==
    /\ views' = b.views
    /\ out' = IF b.status = "ok"
              THEN Returned(op, views, "ok", "view", made.h, 0)
              ELSE Returned(op, views, b.status, "none", NoHandle, 0)
    /\ pre' = mem
    /\ calls' = <<>>
    /\ UNCHANGED <<mem, lhs, rhs, allocs, nops, reuse, cheap_casts>>

\* let v = lhs.as_slice(0..lhs.len())
AsSlice ==
    /\ Count(views) < MaxViews
    /\ Borrowed("as_slice", Shared_borrow(views),
                MutVector_as_slice(mem, lhs, Full))

\* let v = lhs.as_slice_mut(0..lhs.len())
AsSliceMut ==
    /\ Count(views) < MaxViews
    /\ Borrowed("as_slice_mut", Exclusive_borrow(views),
                MutVector_as_slice_mut(mem, lhs, Full))

\* let w = v.as_slice(0..v.len()), v the live MutVectorSlice
ViewAsSlice ==
    /\ Count(views) < MaxViews
    /\ views.exclusive > 0
    /\ Borrowed("view_as_slice", Shared_reborrow(views),
                MutVectorSlice_as_slice(mem, ExclusiveView,
                                        Range(0, ExclusiveView.n)))

\* let w = v.clone(), v a live view of a variant that has Clone
CloneView ==
    /\ Count(views) < MaxViews
    /\ \E k \in Cloneable, o \in {"owner", "view"} :
        /\ \/ k = VectorSlice /\ o = "owner" /\ views.shared > 0
           \/ k = VectorSlice /\ o = "view" /\ views.derived > 0
           \/ k = MutVectorSlice /\ o = "owner" /\ views.exclusive > 0
        /\ Borrowed("clone", Granted(Clone_clone(views, k, o)),
                    IF k = MutVectorSlice
                    THEN [h |-> ExclusiveView]
                    ELSE MutVector_as_slice(mem, lhs, Full))

\* The end of a view's lifetime; the MutVectorSlice outlives the views
\* borrowed from it
DropView ==
    /\ \E o \in {"shared", "exclusive", "derived"} :
        /\ views[o] > 0
        /\ o = "exclusive" => views.derived = 0
        /\ views' = [views EXCEPT ![o] = @ - 1,
                                  !.spent = IF o = "exclusive" THEN 0 ELSE @]
    /\ out' = Returned("drop", views, "ok", "none", NoHandle, 0)
    /\ pre' = mem
    /\ calls' = <<>>
    /\ UNCHANGED <<mem, lhs, rhs, allocs, nops, reuse, cheap_casts>>

\* v.map_enumerate_mut(f), v the live MutVectorSlice
ViewMapEnumerateMut ==
    /\ views.exclusive > 0
    /\ nops < MaxOps
    /\ \E f \in IndexValueClosures :
        LET b == Exclusive_use(views)
            c == MapMut_map_enumerate_mut(mem, ExclusiveView, f)
        IN  /\ mem' = IF b.status = "ok" THEN c.mem ELSE mem
            /\ calls' = IF b.status = "ok" THEN c.calls ELSE <<>>
            /\ out' = IF b.status = "ok"
                      THEN Returned("map_enumerate_mut", views, "ok", "view",
                                    ExclusiveView, 0)
                      ELSE Returned("map_enumerate_mut", views, b.status,
                                    "none", NoHandle, 0)
            /\ views' = b.views
    /\ pre' = mem
    /\ nops' = nops + 1
    /\ UNCHANGED <<lhs, rhs, allocs, reuse, cheap_casts>>

NextBorrow ==
    \/ AsSlice \/ AsSliceMut \/ ViewAsSlice \/ CloneView \/ DropView
    \/ ViewMapEnumerateMut

SpecBorrow == InitBorrow /\ [][NextBorrow]_vars

(***************************************************************************)
(* Cheap conversions: From impls that take their argument by value and     *)
(* move its buffer into the new container.                                 *)
(***************************************************************************)
\* A Vec<T> of the caller, owning buffer b
Vec == "Vec"

\* The container of kind k that owns the buffer `source` owned
Moved(m, source, k) ==
    [mem |-> m, h |-> [kind |-> k, buf |-> source.buf, start |-> 0, n |-> 0]]

\* Vector::from(Vec<T>): Vector { values }
Vector_from_Vec(m, source) == Moved(m, source, Vector)

\* a Vector::from(MutVector<T>) that clones the elements into a new buffer
Vector_from_MutVector_cloning(m, source) ==
    [mem |-> Append(m, m[source.buf]),
     h |-> [kind |-> Vector, buf |-> Len(m) + 1, start |-> 0, n |-> 0]]

\* Vector::from(MutVector<T>): Vector { values: values.values }
Vector_from_MutVector(m, source) == Moved(m, source, Vector)

\* MutVector::from(Vec<T>)
MutVector_from_Vec(m, source) == Moved(m, source, MutVector)

\* MutVector::from(Vector<T>)
MutVector_from_Vector(m, source) == Moved(m, source, MutVector)

\* The caller's Vec or owned container lhs, and a Vector of its length
InitConv ==
    \E lk \in {Vec, Vector, MutVector}, lv \in SeqsUpTo(MaxLen) :
    \E rv \in SeqsOfLen(Len(lv)) :
        /\ mem = <<lv, rv>>
        /\ lhs = [kind |-> lk, buf |-> 1, start |-> 0, n |-> 0]
        /\ rhs = Handle(Vector, 2, rv)
        /\ out = NoOut
        /\ pre = mem
        /\ allocs = 0
        /\ nops = 0
        /\ reuse = Seed(lv, 0)
        /\ calls = <<>>
        /\ views = NoViews
        /\ cheap_casts = FALSE

\* let lhs = K::from(lhs): the argument is moved into the call, the result
\* takes its place
Converted(op, r) ==
    /\ nops < MaxOps
    /\ mem' = r.mem
    /\ lhs' = r.h
    /\ out' = Returned(op, lhs, "ok", "taken", r.h, 0)
    /\ pre' = Base
    /\ allocs' = allocs + (Len(r.mem) - Len(Base))
    /\ nops' = nops + 1
    /\ UNCHANGED <<rhs, reuse, calls, views, cheap_casts>>

VectorFromVec ==
    lhs.kind = Vec /\ Converted("Vector::from", Vector_from_Vec(Base, lhs))

VectorFromMutVector ==
    /\ lhs.kind = MutVector
    /\ Converted("Vector::from", Vector_from_MutVector(Base, lhs))

MutVectorFromVec ==
    lhs.kind = Vec /\ Converted("MutVector::from", MutVector_from_Vec(Base, lhs))

MutVectorFromVector ==
    /\ lhs.kind = Vector
    /\ Converted("MutVector::from", MutVector_from_Vector(Base, lhs))

\* lhs + rhs on the container lhs has become
AddConverted == lhs.kind \in Kinds /\ Add

NextConv ==
    \/ VectorFromVec \/ VectorFromMutVector
    \/ MutVectorFromVec \/ MutVectorFromVector
    \/ AddConverted

SpecConv == InitConv /\ [][NextConv]_vars

(***************************************************************************)
(* Costly conversions: the From impls for Vector<T> that take a reference, *)
(* a slice or a view and clone its elements.  They are compiled only when  *)
(* the feature "cheap_casts" is off.                                       *)
(***************************************************************************)
Cast == "Vector::from, cloning"

\* <[T]>::to_vec: a new Vec with a clone of every element of the slice
to_vec(m, s) == [i \in 1 .. s.n |-> m[s.buf][s.start + i]]

\* Vec::clone: a new Vec with a clone of every element
Vec_clone(m, v) == [i \in 1 .. Len(m[v.buf]) |-> m[v.buf][i]]

\* From<&[T]> for Vector<T>
Vector_from_slice(m, source) == Vector_from(Cast, "clone", m, to_vec(m, source))

\* From<&mut [T]> for Vector<T>
Vector_from_mut_slice(m, source) ==
    Vector_from(Cast, "clone", m, to_vec(m, source))

\* From<&Vector<T>> for Vector<T>
Vector_from_ref_Vector(m, vector) ==
    Vector_from(Cast, "clone", m, Vec_clone(m, vector))

\* a From<&MutVector<T>> whose result shares the buffer of its argument
Vector_from_ref_MutVector_sharing(m, vector) ==
    [mem |-> m, allocd |-> 0,
     out |-> Returned(Cast, "clone", "ok", "fresh",
                      [kind |-> Vector, buf |-> vector.buf,
                       start |-> 0, n |-> 0], 0)]

\* From<&MutVector<T>> for Vector<T>
Vector_from_ref_MutVector(m, vector) ==
    Vector_from(Cast, "clone", m, Vec_clone(m, vector))

\* From<&mut MutVector<T>> for Vector<T>
Vector_from_mut_ref_MutVector(m, vector) ==
    Vector_from(Cast, "clone", m, Vec_clone(m, vector))

\* From<VectorSlice<'v, T>> for Vector<T>: Vector::from(vector.values.clone()),
\* where the clone of the &[T] is the same fat pointer
Vector_from_VectorSlice(m, vector) == Vector_from_slice(m, vector)

\* From<&VectorSlice<'v, T>> for Vector<T>
Vector_from_ref_VectorSlice(m, vector) == Vector_from_slice(m, vector)

\* From<MutVectorSlice<'v, T>> for Vector<T>: Vector::from(vector.values)
Vector_from_MutVectorSlice(m, vector) == Vector_from_mut_slice(m, vector)

\* From<&MutVectorSlice<'v, T>> for Vector<T>:
\* Vector::from(vector.values.as_ref().clone()), as_ref() and the clone of
\* the &[T] being the same fat pointer
Vector_from_ref_MutVectorSlice(m, vector) == Vector_from_slice(m, vector)

\* From<&mut MutVectorSlice<'v, T>> for Vector<T>
Vector_from_mut_ref_MutVectorSlice(m, vector) == Vector_from_slice(m, vector)

\* The argument types of the costly impls, and the kind of container each
\* is an argument type of ("slice" for a slice of the caller, a fat pointer
\* like a view's)
CostlyFrom ==
    {"&[T]", "&mut [T]", "&Vector", "&MutVector", "&mut MutVector",
     "VectorSlice", "&VectorSlice", "MutVectorSlice", "&MutVectorSlice",
     "&mut MutVectorSlice"}

ArgumentOf(via) ==
    CASE via \in {"&[T]", "&mut [T]"} -> "slice"
      [] via = "&Vector" -> Vector
      [] via \in {"&MutVector", "&mut MutVector"} -> MutVector
      [] via \in {"VectorSlice", "&VectorSlice"} -> VectorSlice
      [] OTHER -> MutVectorSlice

\* Vector::from(source), by the type of the argument
cast(via, m, source) ==
    CASE via = "&[T]" -> Vector_from_slice(m, source)
      [] via = "&mut [T]" -> Vector_from_mut_slice(m, source)
      [] via = "&Vector" -> Vector_from_ref_Vector(m, source)
      [] via = "&MutVector" -> Vector_from_ref_MutVector(m, source)
      [] via = "&mut MutVector" -> Vector_from_mut_ref_MutVector(m, source)
      [] via = "VectorSlice" -> Vector_from_VectorSlice(m, source)
      [] via = "&VectorSlice" -> Vector_from_ref_VectorSlice(m, source)
      [] via = "MutVectorSlice" -> Vector_from_MutVectorSlice(m, source)
      [] via = "&MutVectorSlice" -> Vector_from_ref_MutVectorSlice(m, source)
      [] via = "&mut MutVectorSlice" ->
            Vector_from_mut_ref_MutVectorSlice(m, source)

\* One build of the library, and a Vec, a slice or a container of the caller
InitCast ==
    \E policy \in BOOLEAN, lk \in {Vec, "slice"} \cup Kinds :
    \E lv \in SeqsUpTo(MaxLen) :
        /\ mem = <<IF lk = Vec THEN lv ELSE Storage(lk, lv), <<>>>>
        /\ lhs = IF lk = Vec
                 THEN [kind |-> Vec, buf |-> 1, start |-> 0, n |-> 0]
                 ELSE Handle(lk, 1, lv)
        /\ rhs = Handle(Vector, 2, <<>>)
        /\ out = NoOut
        /\ pre = mem
        /\ allocs = 0
        /\ nops = 0
        /\ reuse = Seed(lv, 0)
        /\ calls = <<>>
        /\ views = NoViews
        /\ cheap_casts = policy

\* let v = Vector::from(&lhs) and the like.  The impls are under
\* cfg(not(feature = "cheap_casts")): with the feature on they are not
\* compiled and the call does not build.
CastFrom ==
    /\ Live
    /\ \E via \in CostlyFrom :
        /\ ArgumentOf(via) = lhs.kind
        /\ LET r == cast(via, Base, lhs)
           IN  Return(IF cheap_casts
                      THEN [mem |-> Base, allocd |-> 0,
                            out |-> Returned(Cast, via, "Unavailable", "none",
                                             NoHandle, 0)]
                      ELSE [r EXCEPT !.out.tag = via])

\* lhs.map_enumerate_mut(f) after v = Vector::from(&lhs), v still in use
SourceWritten ==
    /\ out.op = Cast
    /\ out.status = "ok"
    /\ out.tag # "MutVectorSlice"
    /\ MutCapable(lhs.kind)
    /\ nops < MaxOps
    /\ \E f \in IndexValueClosures :
        LET c == MapMut_map_enumerate_mut(mem, lhs, f)
        IN  /\ mem' = c.mem
            /\ calls' = c.calls
    /\ out' = Returned("map_enumerate_mut", out, "ok", "lhs", lhs, 0)
    /\ pre' = mem
    /\ nops' = nops + 1
    /\ UNCHANGED <<lhs, rhs, allocs, reuse, views, cheap_casts>>

NextCast ==
    \/ CastFrom \/ SourceWritten
    \/ VectorFromVec \/ VectorFromMutVector

SpecCast == InitCast /\ [][NextCast]_vars

(***************************************************************************)
(* Properties.                                                             *)
(***************************************************************************)
\* The operands as they were when the last operation was called
OldL == Elems(pre, lhs)
OldR == Elems(pre, rhs)

EqualLength == Len(OldL) = Len(OldR)

Elementwise(f, l, r) == [i \in 1 .. Len(l) |-> Apply(f, l[i], r[i])]

\* The closure of the last operator call
OpClosure == IF out.op = "add" THEN "add" ELSE "sub"

\* Every buffer that existed before the call holds what it held
StorageUnchanged == SubSeq(mem, 1, Len(pre)) = pre

\* C1: after + or - on two operands that are each a Vector or a VectorSlice
\* and have equal length n, the result is a newly allocated Vector of length
\* n holding lhs[i] + rhs[i] (lhs[i] - rhs[i] for -), and the storage of both
\* operands is unchanged.
C1_ImmutablePairsAllocate ==
    ( /\ out.op \in {"add", "sub"}
      /\ ~MutCapable(lhs.kind) /\ ~MutCapable(rhs.kind)
      /\ EqualLength )
    => /\ out.status = "ok"
       /\ out.where = "fresh"
       /\ out.h.kind = Vector
       /\ out.h.buf = Len(pre) + 1
       /\ Len(mem) = Len(pre) + 1
       /\ Elems(mem, out.h) = Elementwise(OpClosure, OldL, OldR)
       /\ Len(Elems(mem, out.h)) = Len(OldL)
       /\ StorageUnchanged
       /\ Elems(mem, lhs) = OldL
       /\ Elems(mem, rhs) = OldR

C1_Witness ==
    /\ out.op = "sub"
    /\ lhs.kind = Vector /\ rhs.kind = Vector
    /\ OldL = <<1, 2>> /\ OldR = <<2, 1>>
    /\ Elems(mem, out.h) = <<-1, 1>>

\* C2: after + or - with a MutVector or MutVectorSlice on the left and any
\* variant of equal length on the right, the left operand's storage holds
\* lhs_old[i] op rhs[i], the call returned a handle to the left operand and
\* allocated nothing, and the right operand's storage is unchanged.
C2_MutableLeftReusesLeft ==
    ( /\ out.op \in {"add", "sub"}
      /\ MutCapable(lhs.kind)
      /\ EqualLength )
    => /\ out.status = "ok"
       /\ out.where = "lhs"
       /\ out.h = lhs
       /\ Len(mem) = Len(pre)
       /\ Elems(mem, lhs) = Elementwise(OpClosure, OldL, OldR)
       /\ Elems(mem, rhs) = OldR
       /\ mem[rhs.buf] = pre[rhs.buf]

C2_Witness ==
    /\ out.op = "sub"
    /\ lhs.kind = MutVectorSlice /\ rhs.kind = MutVector
    /\ OldL = <<1, 2>> /\ OldR = <<2, 1>>
    /\ Elems(mem, lhs) = <<-1, 1>>
    /\ out.h = lhs

\* C3: after + or - with a Vector or VectorSlice on the left and a MutVector
\* or MutVectorSlice of equal length on the right, the right operand's
\* storage holds lhs[i] op rhs_old[i] in the operator's orientation, the
\* call returned a handle to the right operand, and the left operand is
\* unchanged.
C3_MutableRightReusesRight ==
    ( /\ out.op \in {"add", "sub"}
      /\ ~MutCapable(lhs.kind) /\ MutCapable(rhs.kind)
      /\ EqualLength )
    => /\ out.status = "ok"
       /\ out.where = "rhs"
       /\ out.h = rhs
       /\ Len(mem) = Len(pre)
       /\ Elems(mem, rhs) = Elementwise(OpClosure, OldL, OldR)
       /\ Elems(mem, lhs) = OldL
       /\ mem[lhs.buf] = pre[lhs.buf]

C3_Witness ==
    /\ out.op = "sub"
    /\ lhs.kind = VectorSlice /\ rhs.kind = MutVectorSlice
    /\ OldL = <<1, 2>> /\ OldR = <<2, 1>>
    /\ Elems(mem, rhs) = <<-1, 1>>
    /\ out.h = rhs

\* sum = default; for i = 0 .. n-1 ascending: sum = sum + l[i] * r[i]
RECURSIVE DotUpTo(_, _, _)
DotUpTo(l, r, n) ==
    IF n = 0 THEN T_default ELSE DotUpTo(l, r, n - 1) + l[n] * r[n]

\* C4: in every pairing, * on operands of equal length n returns the scalar
\* folded from the default value in ascending index order, the default
\* itself for n = 0.
C4_DotProductFold ==
    (out.op = "dot" /\ EqualLength)
    => /\ out.status = "ok"
       /\ out.where = "scalar"
       /\ out.scalar = DotUpTo(OldL, OldR, Len(OldL))
       /\ (Len(OldL) = 0 => out.scalar = T_default)

C4_Witness ==
    /\ out.op = "dot"
    /\ lhs.kind = MutVectorSlice /\ rhs.kind = VectorSlice
    /\ OldL = <<1, 2>> /\ OldR = <<2, 2>>
    /\ out.scalar = 6

\* C5: * leaves the whole heap, hence contents and length of both operands,
\* as it was, in every pairing and under every attribute.
C5_DotProductPure ==
    (out.op = "dot")
    => /\ mem = pre
       /\ Elems(mem, lhs) = OldL
       /\ Elems(mem, rhs) = OldR

C5_Witness ==
    /\ out.op = "dot"
    /\ out.tag = "mut_both"
    /\ out.status = "ok"
    /\ OldL = <<2, 1>>
    /\ mem = pre

\* C6: every operation called on operands of different lengths fails with
\* SizeMismatch, returns nothing and leaves the whole heap as it was.
C6_SizeMismatchFailsClean ==
    (out.op # "none" /\ ~EqualLength)
    => /\ out.status = "SizeMismatch"
       /\ out.where = "none"
       /\ mem = pre
       /\ Elems(mem, lhs) = OldL
       /\ Elems(mem, rhs) = OldR

C6_Witness ==
    /\ out.op = "combine_mut"
    /\ out.status = "SizeMismatch"
    /\ lhs.kind = MutVector
    /\ OldL = <<1, 2>> /\ OldR = <<1>>
    /\ mem = pre

\* seed + addends[1] + ... + addends[k], elementwise
RECURSIVE SumAll(_, _)
SumAll(seed, addends) ==
    IF addends = <<>>
    THEN seed
    ELSE SumAll(Elementwise("add", seed, Head(addends)), Tail(addends))

\* C7: while immutable vectors of its length are added in place to one
\* MutVector, the buffer holds the elementwise sum of its seed and of all the
\* addends so far, every addition returned that same buffer, and the
\* additions allocate nothing: the heap stays the buffer and the addend.
C7_RepeatedReuse ==
    (reuse.addends # <<>>)
    => /\ lhs = Handle(MutVector, 1, reuse.seed)
       /\ Elems(mem, lhs) = SumAll(reuse.seed, reuse.addends)
       /\ Len(Elems(mem, lhs)) = Len(reuse.seed)
       /\ allocs = reuse.allocs
       /\ allocs = 0
       /\ Len(mem) = 2
       /\ (out.op = "add" => out.where = "lhs" /\ out.h = lhs)

C7_Witness ==
    /\ reuse.seed = <<1, 2>>
    /\ reuse.addends = << <<1, 1>>, <<2, 1>> >>
    /\ Elems(mem, lhs) = <<4, 4>>
    /\ allocs = 0

\* The contents an operator call returned
Value(r) == Elems(r.mem, r.out.h)

\* The heap m with one more container, of kind k holding values c
With(m, k, c) == Append(m, Storage(k, c))
Third(m, k, c) == Handle(k, Len(m) + 1, c)

\* C8: for operands A, B of equal length, the contents A + B produced equal
\* the contents of B + A; and for every third container C of that length, of
\* any variant, adding C to the result gives the contents of A + (B + C).
C8_AddCommutesAssociates ==
    (out.op = "add" /\ EqualLength)
    => /\ out.status = "ok"
       /\ LET ba == impl_vector_add(pre, rhs, lhs)
          IN  ba.out.status = "ok" /\ Elems(mem, out.h) = Value(ba)
       /\ \A k \in Kinds : \A c \in SeqsOfLen(Len(OldL)) :
            LET ab_c == impl_vector_add(With(mem, k, c), out.h, Third(mem, k, c))
                bc   == impl_vector_add(With(pre, k, c), rhs, Third(pre, k, c))
                a_bc == impl_vector_add(bc.mem, lhs, bc.out.h)
            IN  /\ ab_c.out.status = "ok" /\ a_bc.out.status = "ok"
                /\ Value(ab_c) = Value(a_bc)

C8_Witness ==
    /\ out.op = "add" /\ out.status = "ok"
    /\ lhs.kind = Vector /\ rhs.kind = Vector
    /\ OldL = <<1, 2>> /\ OldR = <<2, 2>>
    /\ Elems(mem, out.h) = <<3, 4>>
    /\ Value(impl_vector_add(pre, rhs, lhs)) = <<3, 4>>

\* C9: after A - B on operands of equal length, adding a Vector that holds
\* B's elements to the result gives A's original contents; and when A is a
\* MutVector or MutVectorSlice, adding B to it in place puts A's original
\* contents back into A's own storage.
C9_SubThenAddRestores ==
    (out.op = "sub" /\ EqualLength)
    => /\ out.status = "ok"
       /\ LET back == impl_vector_add(With(mem, Vector, OldR), out.h,
                                      Third(mem, Vector, OldR))
          IN  back.out.status = "ok" /\ Value(back) = OldL
       /\ MutCapable(lhs.kind) =>
            LET again == impl_vector_add(mem, lhs, rhs)
            IN  /\ again.out.status = "ok"
                /\ again.out.h = lhs
                /\ Len(again.mem) = Len(mem)
                /\ Elems(again.mem, lhs) = OldL

C9_Witness ==
    /\ out.op = "sub" /\ out.status = "ok"
    /\ lhs.kind = MutVector /\ rhs.kind = MutVectorSlice
    /\ OldL = <<2, 1>> /\ OldR = <<1, 2>>
    /\ Elems(mem, lhs) = <<1, -1>>
    /\ Elems(impl_vector_add(mem, lhs, rhs).mem, lhs) = <<2, 1>>

\* C10: in every pairing, the dot product of operands of equal length equals
\* the dot product of the same operands the other way round.
C10_DotSymmetric ==
    (out.op = "dot" /\ EqualLength)
    => LET ba == impl_dot_product(pre, rhs, lhs)
       IN  /\ out.status = "ok" /\ ba.out.status = "ok"
           /\ out.scalar = ba.out.scalar

C10_Witness ==
    /\ out.op = "dot" /\ out.status = "ok"
    /\ lhs.kind = MutVector /\ rhs.kind = VectorSlice
    /\ OldL = <<1, 2>> /\ OldR = <<2, 1>>
    /\ out.scalar = 4
    /\ impl_dot_product(pre, rhs, lhs).out.scalar = 4

\* What the last unary transform has to yield for a container that held
\* `old`: f of each element, of each 0-based position, or of both.
MapExpected(old) ==
    [i \in 1 .. Len(old) |->
        IF out.op = "map" THEN ApplyMap(out.tag, old[i])
        ELSE IF out.op = "map_index" THEN ApplyIndex(out.tag, i - 1)
        ELSE ApplyIndexValue(out.tag, i - 1, old[i])]

C12_MapComposes ==
    (out.op = "map")
    => \A g \in MapClosures :
          map(mem, out.h, g) = map(pre, lhs, Compose(g, out.tag))

C12_Witness ==
    /\ out.op = "map"
    /\ out.tag = "inc"
    /\ lhs.kind = MutVector
    /\ OldL = <<1, 2>>
    /\ map(mem, out.h, "square") = <<4, 9>>
    /\ map(pre, lhs, Compose("square", "inc")) = <<4, 9>>

\* What the last binary transform has to yield for operands that held l, r
CombineExpected(l, r) ==
    [i \in 1 .. Len(l) |->
        IF out.op = "combine" THEN Apply(out.tag, l[i], r[i])
        ELSE ApplyAt(out.tag, l[i], r[i], i - 1)]

Positions(n) == [i \in 1 .. n |-> i - 1]

\* C14: map_mut on a mutable variant overwrites every element with f of its
\* current value and returns the container it was called on.
C14_MapMutOverwrites ==
    (out.op = "map_mut")
    => /\ out.status = "ok"
       /\ out.where = "lhs"
       /\ out.h = lhs
       /\ Elems(mem, lhs) = [i \in 1 .. Len(OldL) |-> ApplyMap(out.tag, OldL[i])]

\* C15: map_index_mut leaves f(i) in element i, and map_enumerate_mut calls
\* f exactly once per element, in ascending order of the 0-based position i,
\* with i and exclusive access to element i.
C15_IndexedInPlace ==
    /\ (out.op = "map_index_mut")
       => /\ out.h = lhs
          /\ Elems(mem, lhs) =
                [i \in 1 .. Len(OldL) |-> ApplyIndex(out.tag, i - 1)]
    /\ (out.op = "map_enumerate_mut")
       => /\ out.h = lhs
          /\ calls = Positions(Len(OldL))
          /\ Elems(mem, lhs) =
                [i \in 1 .. Len(OldL) |-> ApplyIndexValue(out.tag, i - 1, OldL[i])]

\* The transforms that work in place
InPlaceOps ==
    {"map_mut", "map_index_mut", "map_enumerate_mut",
     "combine_mut", "combine_enumerate_mut"}

\* C16: map_mut, map_index_mut, map_enumerate_mut, combine_mut and
\* combine_enumerate_mut keep the length of the container they are called on,
\* allocate no container and grow no buffer, and on completion return a
\* handle to that same container.
C16_InPlacePreservesLength ==
    (out.op \in InPlaceOps)
    => /\ VectorType_len(mem, lhs) = VectorType_len(pre, lhs)
       /\ Len(mem) = Len(pre)
       /\ \A b \in 1 .. Len(pre) : Len(mem[b]) = Len(pre[b])
       /\ (out.status = "ok" => out.where = "lhs" /\ out.h = lhs)

C16_Witness ==
    /\ out.op = "map_enumerate_mut"
    /\ out.status = "ok"
    /\ lhs.kind = MutVector
    /\ OldL = <<1, 2>>
    /\ Elems(mem, lhs) = <<1, 12>>
    /\ Len(mem) = Len(pre)
    /\ out.h = lhs

SliceOps == {"to_slice", "as_slice"}

\* start <= end <= n
InRange(range, n) == range.start <= range.end /\ range.end <= n

\* The elements old[from + 1], .., old[from + count], i.e. positions
\* from .. from + count - 1 counted from 0
Run(old, from, count) == [k \in 1 .. count |-> old[from + k]]

\* C17: slicing any variant of length n over start..end with
\* start <= end <= n yields a VectorSlice of length end - start whose
\* element k is the container's element start + k; it views the container's
\* own buffer, allocates nothing and leaves all storage as it was.  Slicing
\* that view over c..d shows the container's elements start + c up to
\* start + d - 1, again in the same buffer.  A VectorSlice built from a raw
\* slice of the same elements has the contents of the full-range slice.
C17_SliceViews ==
    /\ (out.op \in SliceOps /\ InRange(out.tag, Len(OldL)))
       => /\ out.status = "ok"
          /\ out.where = "view"
          /\ out.h.kind = VectorSlice
          /\ VectorType_len(mem, out.h) = out.tag.end - out.tag.start
          /\ \A k \in 0 .. out.tag.end - out.tag.start - 1 :
                Index_index(mem, out.h, k) = OldL[out.tag.start + k + 1]
          /\ out.h.buf = lhs.buf
          /\ mem = pre
          /\ \A c \in 0 .. VectorType_len(mem, out.h) :
             \A d \in c .. VectorType_len(mem, out.h) :
                LET inner == VectorSlice_as_slice(mem, out.h, Range(c, d))
                IN  /\ inner.status = "ok"
                    /\ inner.h.buf = lhs.buf
                    /\ Elems(mem, inner.h) = Run(OldL, out.tag.start + c, d - c)
    /\ (out.op = "from")
       => LET full == slice(pre, lhs, Range(0, Len(OldL)))
          IN  /\ full.status = "ok"
              /\ Elems(mem, out.h) = Elems(pre, full.h)
              /\ Elems(mem, out.h) = OldL

C17_Witness ==
    /\ out.op = "to_slice"
    /\ lhs.kind = Vector
    /\ OldL = Scenario
    /\ out.tag = Range(2, 4)
    /\ Elems(mem, out.h) = <<3, 4>>
    /\ Elems(mem, VectorSlice_as_slice(mem, out.h, Range(1, 2)).h) = <<4>>
    /\ Len(mem) = Len(pre)

\* C18: slicing any variant of length n over a range whose end or whose
\* start exceeds n, and indexing it at a position i >= n, fail with an
\* out-of-range panic: no view and no element is returned, and the container
\* and all storage stay as they were.
C18_OutOfRangeFails ==
    /\ (out.op \in SliceOps
        /\ (out.tag.end > Len(OldL) \/ out.tag.start > Len(OldL)))
       => /\ out.status = "IndexOutOfRange"
          /\ out.where = "none"
          /\ out.h = NoHandle
          /\ mem = pre
          /\ Elems(mem, lhs) = OldL
    /\ (out.op = "index" /\ out.tag >= Len(OldL))
       => /\ out.status = "IndexOutOfRange"
          /\ out.where = "none"
          /\ mem = pre
          /\ Elems(mem, lhs) = OldL
    /\ (out.op = "index" /\ out.tag < Len(OldL))
       => out.status = "ok" /\ out.scalar = OldL[out.tag + 1]

C18_Witness ==
    /\ out.op = "as_slice"
    /\ lhs.kind = MutVector
    /\ OldL = Scenario
    /\ out.tag = Range(0, 5)
    /\ out.status = "IndexOutOfRange"
    /\ Elems(mem, lhs) = Scenario

Contents(m, h) == IF h.kind = Vec THEN m[h.buf] ELSE Elems(m, h)

\* C20: Vector::from(Vec), Vector::from(MutVector), MutVector::from(Vec) and
\* MutVector::from(Vector) return a container with exactly the elements of
\* their argument, in order and of the same length, that owns the argument's
\* buffer: nothing is copied or allocated.  Hence a Vector turned into a
\* MutVector and back holds what it held, and a MutVector made from a Vec
\* equals the MutVector made from the Vector made from that Vec.
C20_CheapConversions ==
    /\ (out.op \in {"Vector::from", "MutVector::from"})
       => /\ out.status = "ok"
          /\ out.h = lhs
          /\ out.h.kind = (IF out.op = "Vector::from" THEN Vector ELSE MutVector)
          /\ Contents(mem, out.h) = Contents(pre, out.tag)
          /\ Len(Contents(mem, out.h)) = Len(pre[out.tag.buf])
          /\ out.h.buf = out.tag.buf
          /\ mem = pre
    /\ (lhs.kind = Vector)
       => LET there == MutVector_from_Vector(mem, lhs)
              back == Vector_from_MutVector(there.mem, there.h)
          IN  /\ Contents(there.mem, there.h) = Contents(mem, lhs)
              /\ Contents(back.mem, back.h) = Contents(mem, lhs)
              /\ back.h = lhs
              /\ back.mem = mem
    /\ (lhs.kind = Vec)
       => LET direct == MutVector_from_Vec(mem, lhs)
              vector == Vector_from_Vec(mem, lhs)
              via == MutVector_from_Vector(vector.mem, vector.h)
          IN  /\ Contents(direct.mem, direct.h) = Contents(via.mem, via.h)
              /\ Contents(direct.mem, direct.h) = mem[lhs.buf]
              /\ Contents(vector.mem, vector.h) = mem[lhs.buf]

C20_Witness ==
    /\ out.op = "Vector::from"
    /\ out.tag.kind = MutVector
    /\ nops = 2
    /\ lhs.kind = Vector
    /\ lhs.buf = out.tag.buf
    /\ Contents(mem, lhs) = <<1, 2>>
    /\ reuse.seed = <<1, 2>>

\* C21: Vector::from of a slice, of a view, or of a reference to an owned
\* container returns a newly allocated Vector with the elements and the
\* length of its argument and leaves the argument and all storage as they
\* were; an in-place transform of the argument afterwards leaves the Vector
\* holding what it held.  In a build with cheap_casts these conversions do
\* not exist, and in every build Vector::from of a Vec and of a MutVector
\* by value succeed and take over the buffer.
C21_CostlyConversionsCopy ==
    /\ (out.op = Cast)
       => /\ out.status = (IF cheap_casts THEN "Unavailable" ELSE "ok")
          /\ mem[lhs.buf] = pre[lhs.buf]
          /\ StorageUnchanged
    /\ (out.op = Cast /\ out.status = "ok")
       => /\ out.h.kind = Vector
          /\ out.h.buf = Len(pre) + 1
          /\ out.h.buf # lhs.buf
          /\ Elems(mem, out.h) = OldL
          /\ Len(Elems(mem, out.h)) = VectorType_len(pre, lhs)
          /\ Elems(mem, lhs) = OldL
    /\ (out.op = Cast /\ out.status # "ok")
       => out.h = NoHandle /\ mem = pre
    /\ (out.op = "map_enumerate_mut")
       => /\ out.tag.op = Cast
          /\ Elems(mem, out.tag.h) = Elems(pre, out.tag.h)
          /\ Elems(mem, out.tag.h) = OldL
          /\ Elems(mem, lhs) =
                [i \in 1 .. Len(OldL) |->
                    ApplyIndexValue("ten_index_plus_value", i - 1, OldL[i])]
    /\ (out.op = "Vector::from")
       => /\ out.status = "ok"
          /\ out.h.buf = out.tag.buf
          /\ Contents(mem, out.h) = Contents(pre, out.tag)

C21_Witness ==
    /\ out.op = "map_enumerate_mut"
    /\ out.tag.tag = "&MutVector"
    /\ ~cheap_casts
    /\ lhs.kind = MutVector
    /\ OldL = <<1, 2>>
    /\ Elems(mem, lhs) = <<1, 12>>
    /\ Elems(mem, out.tag.h) = <<1, 2>>

\* max(end - start, 0)
Span(range) ==
    IF range.end - range.start > 0 THEN range.end - range.start ELSE 0

\* C22: to_slice and as_slice of every variant, called on a container of
\* length n with start > end and start <= n, do not fail: they return an
\* empty view of the container's buffer and change nothing.  The call fails
\* exactly when start > n or start + max(end - start, 0) > n.
C22_InvertedRangeIsEmpty ==
    (out.op \in SliceOps)
    => /\ (out.tag.start > out.tag.end /\ out.tag.start <= Len(OldL))
          => /\ out.status = "ok"
             /\ out.h.kind = VectorSlice
             /\ VectorType_len(mem, out.h) = 0
             /\ Elems(mem, out.h) = <<>>
             /\ out.h.buf = lhs.buf
             /\ mem = pre
       /\ (out.status # "ok")
          <=> \/ out.tag.start > Len(OldL)
              \/ out.tag.start + Span(out.tag) > Len(OldL)
       /\ out.status \in {"ok", "IndexOutOfRange"}

C22_Witness ==
    /\ out.op = "as_slice"
    /\ lhs.kind = MutVectorSlice
    /\ OldL = Scenario
    /\ out.tag = Range(3, 1)
    /\ out.status = "ok"
    /\ VectorType_len(mem, out.h) = 0
    /\ Elems(mem, lhs) = Scenario

=============================================================================
